---- MODULE Spec2Model ----
(***************************************************************************)
(* beatsaver-watch.py: a recurring poller.  One run of main() loads the    *)
(* state file, fetches the tag pool page by page, resolves the "new" set   *)
(* against the watermark (last_seen) and the delivered identities          *)
(* (seen_ids), sends the new set or a preview, advances the watermark and  *)
(* saves the state file.                                                   *)
(*                                                                         *)
(* Time is a small integer (1 .. MaxNow for the clock, the catalogue's     *)
(* createdAt values for the documents).  Python's None is the integer      *)
(* None; datetime.min is DATETIME_MIN, below every time.  An aware         *)
(* datetime written with isoformat() and read with fromisoformat() is the  *)
(* same instant, so the watermark in the file is kept as the integer.      *)
(***************************************************************************)
EXTENDS Integers, Sequences, FiniteSets, TLC

\* ---------------------------------------------------------------- bounds
MaxNow == 3                 \* clock readings are 1 .. MaxNow
PageSize == 1               \* documents the remote service puts on one page
BS_MAX_PAGES_PER_TAG == 2   \* src line 33 (default 30, scaled down)
PREVIEW_LAST_N == 2         \* src line 42 (default 3, scaled down)
SEEN_CAP == 2               \* src line 353 (20000, scaled down)
FALLBACK_PAGES == 3         \* src line 321
ALWAYS_EMAIL == TRUE        \* src line 41 (default on)

None == -1
DATETIME_MIN == 0

Min(a, b) == IF a < b THEN a ELSE b
Max(a, b) == IF a > b THEN a ELSE b

\* ------------------------------------------------------ the remote service
\* The documents the service may list, newest first (the one without any
\* timestamp field last), as raw records.
Catalog ==
  << [id |-> "d", createdAt |-> 3,    score |-> 40, tags |-> {"rock"}],
     [id |-> "b", createdAt |-> 2,    score |-> 90, tags |-> {"metal"}],
     [id |-> "a", createdAt |-> 1,    score |-> 90, tags |-> {"rock"}],
     [id |-> "c", createdAt |-> None, score |-> 90, tags |-> {"rock", "metal"}] >>

CatalogIds == {Catalog[i].id : i \in 1..Len(Catalog)}

LATEST == "latest"

\* What the endpoint `src` lists when the documents `rem` exist:
\* /maps/latest lists all of them, /search/text?q=tag=<t> those tagged t.
Listing(src, rem) ==
  SelectSeq(Catalog, LAMBDA d : d.id \in rem /\ (src = LATEST \/ src \in d.tags))

\* docs of page `page` (0-based) of a listing
PageOf(listing, page) ==
  SubSeq(listing, page * PageSize + 1, Min((page + 1) * PageSize, Len(listing)))

\* ------------------------------------------------------------ configuration
TagChoices == { <<>>, <<"rock", "metal">> }
MinScoreChoices == {0, 50}

VARIABLES
  BS_TAGS,          \* configured tags (a sequence; empty = unfiltered)
  BS_MIN_SCORE,     \* minimum score in percent; 0 = disabled
  DRY_RUN,          \* no send, still updates state
  file,             \* data/bs_state.json
  remote,           \* ids of the documents that exist at the service in this run
  now,              \* the clock reading of this run (now_utc)
  fail,             \* per listing, the page whose request raises in this run
  pc,               \* position of the run
  outcome,          \* how the last run ended
  loaded,           \* what load_state returned at the start of the run
  state,            \* the dict `state` of main
  last_seen,        \* main's local
  seen_ids,         \* main's local (a set)
  raw_docs,         \* result of fetch_merged_latest_for_tags
  requests,         \* page requests of that call, in order
  items_all,        \* filtered, sorted pool
  new_items,        \* the new-set
  fallback_preview, \* preview pulled from /maps/latest when the pool is empty
  sent,             \* the send_email call of this run
  events,           \* external calls of this run, in order
  repeat,           \* this run repeats the previous one in an unchanged environment
  twin,             \* this run is the DRY_RUN twin of the previous one
  first_run,        \* no run has ended before this one
  prev              \* what the previous run was, when repeat or twin

vars == << BS_TAGS, BS_MIN_SCORE, DRY_RUN, file, remote, now, fail, pc, outcome,
           loaded, state,
           last_seen, seen_ids, raw_docs, requests, items_all, new_items,
           fallback_preview, sent, events, repeat, twin, first_run, prev >>

config == << BS_TAGS, BS_MIN_SCORE, DRY_RUN >>

\* ------------------------------------------------------------------- state
\* The JSON list seen_ids is read back only through set() (line 286) and is
\* written from list(set) (line 353), so its order carries nothing from run
\* to run: the file and the dict keep the members of the list.
NoFile      == [kind |-> "missing", last_seen |-> None, seen_ids |-> {}]
CorruptFile == [kind |-> "corrupt", last_seen |-> None, seen_ids |-> {}]
JsonFile(st) == [kind |-> "json", last_seen |-> st.last_seen, seen_ids |-> st.seen_ids]

DefaultState == [last_seen |-> None, seen_ids |-> {}]

\* load_state: the default when the file does not exist, else json.load;
\* json.load raises on a file that is no JSON document.
LoadRaises(f) == f.kind = "corrupt"
load_state(f) ==
  IF f.kind = "json" THEN [last_seen |-> f.last_seen, seen_ids |-> f.seen_ids]
  ELSE DefaultState

Range(s) == {s[i] : i \in 1..Len(s)}

\* ----------------------------------------------------------------- helpers
\* doc_uid: the id field when the record has one (every catalogue record has).
doc_uid(d) == d.id

\* iso_to_dt: None for an absent value, else the instant.
iso_to_dt(s) == IF s = None THEN None ELSE s

\* normalize_doc: the fields main() reads.
normalize_doc(d) ==
  [uid |-> doc_uid(d), created_at |-> iso_to_dt(d.createdAt), score |-> d.score]

RECURSIVE MapNormalize(_)
MapNormalize(docs) ==
  IF docs = <<>> THEN <<>>
  ELSE <<normalize_doc(Head(docs))>> \o MapNormalize(Tail(docs))

Uids(items) == {items[i].uid : i \in 1..Len(items)}

\* ------------------------------------------------------------------- fetch
\* for d in docs: skip a uid already merged, else append      (lines 181-186)
RECURSIVE MergeDocs(_, _)
MergeDocs(merged, docs) ==
  IF docs = <<>> THEN merged
  ELSE LET d == Head(docs) IN
       IF doc_uid(d) \in {doc_uid(merged[i]) : i \in 1..Len(merged)}
       THEN MergeDocs(merged, Tail(docs))
       ELSE MergeDocs(Append(merged, d), Tail(docs))

\* One request log entry: endpoint, page index, whether the request succeeded.
Req(src, page, ok) == [src |-> src, page |-> page, ok |-> ok]

\* Mutant of FetchPages: a failed request is skipped (continue, not break).
RECURSIVE FetchPages_Continue(_, _, _, _, _, _)
FetchPages_Continue(src, rem, max_pages, failAt, page, acc) ==
  IF page >= max_pages THEN acc
  ELSE IF page = failAt
       THEN FetchPages_Continue(src, rem, max_pages, failAt, page + 1,
                                [acc EXCEPT !.requests = Append(@, Req(src, page, FALSE))])
       ELSE LET docs == PageOf(Listing(src, rem), page)
                logged == [acc EXCEPT !.requests = Append(@, Req(src, page, TRUE))]
            IN IF docs = <<>> THEN logged
               ELSE FetchPages_Continue(src, rem, max_pages, failAt, page + 1,
                                        [logged EXCEPT !.merged = MergeDocs(@, docs)])

\* Mutant of FetchPages: the page loop runs one page too far.
RECURSIVE FetchPages_OneMore(_, _, _, _, _, _)
FetchPages_OneMore(src, rem, max_pages, failAt, page, acc) ==
  IF page > max_pages THEN acc
  ELSE IF page = failAt
       THEN [acc EXCEPT !.requests = Append(@, Req(src, page, FALSE))]
       ELSE LET docs == PageOf(Listing(src, rem), page)
                logged == [acc EXCEPT !.requests = Append(@, Req(src, page, TRUE))]
            IN IF docs = <<>> THEN logged
               ELSE FetchPages_OneMore(src, rem, max_pages, failAt, page + 1,
                                       [logged EXCEPT !.merged = MergeDocs(@, docs)])

\* for page in range(max_pages): the request of page `failAt` raises.
\* acc = [merged, requests].  A failure and an empty page both break the loop.
RECURSIVE FetchPages(_, _, _, _, _, _)
FetchPages(src, rem, max_pages, failAt, page, acc) ==
  IF page >= max_pages THEN acc
  ELSE IF page = failAt
       THEN [acc EXCEPT !.requests = Append(@, Req(src, page, FALSE))]
       ELSE LET docs == PageOf(Listing(src, rem), page)
                logged == [acc EXCEPT !.requests = Append(@, Req(src, page, TRUE))]
            IN IF docs = <<>> THEN logged
               ELSE FetchPages(src, rem, max_pages, failAt, page + 1,
                               [logged EXCEPT !.merged = MergeDocs(@, docs)])

\* for tag in tags: the page loop of that tag; `failing[i]` is the failing page
\* of the i-th tag.  The break leaves the page loop only.
RECURSIVE FetchTags(_, _, _, _, _, _)
FetchTags(tags, rem, max_pages, failing, i, acc) ==
  IF i > Len(tags) THEN acc
  ELSE FetchTags(tags, rem, max_pages, failing, i + 1,
                 FetchPages(tags[i], rem, max_pages, failing[i], 0, acc))

\* fetch_merged_latest_for_tags(tags, max_pages); failing[1] is used without tags.
fetch_merged_latest_for_tags(tags, max_pages, rem, failing) ==
  LET empty == [merged |-> <<>>, requests |-> <<>>] IN
  IF tags # <<>>
  THEN FetchTags(tags, rem, max_pages, failing, 1, empty)
  ELSE FetchPages(LATEST, rem, max_pages, failing[1], 0, empty)

\* The failure patterns of one call: per listing the page whose request raises
\* (max_pages: none does).
FailChoices(tags, max_pages) ==
  [1..Max(Len(tags), 1) -> 0..max_pages]

\* -------------------------------------------------------------------- main
\* line 295: the optional score filter
ScoreFilter(items, min_score) ==
  IF min_score > 0
  THEN SelectSeq(items, LAMBDA x : x.score # None /\ x.score >= min_score)
  ELSE items

\* line 298: the sort key, created_at or datetime.min
SortKey(it) == IF it.created_at # None THEN it.created_at ELSE DATETIME_MIN

\* list.sort(key, reverse=True): stable, equal keys keep their order
RECURSIVE InsertDesc(_, _)
InsertDesc(sorted, it) ==
  IF sorted = <<>> THEN <<it>>
  ELSE IF SortKey(Head(sorted)) >= SortKey(it)
       THEN <<Head(sorted)>> \o InsertDesc(Tail(sorted), it)
       ELSE <<it>> \o sorted

RECURSIVE SortNewestFirst(_, _)
SortNewestFirst(done, todo) ==
  IF todo = <<>> THEN done
  ELSE SortNewestFirst(InsertDesc(done, Head(todo)), Tail(todo))

\* lines 291-298: normalize, filter, sort
ItemsAll(docs, min_score) ==
  SortNewestFirst(<<>>, ScoreFilter(MapNormalize(docs), min_score))

\* Mutant of IsCandidate: >= in place of >.
IsCandidate_Geq(it, ls, seen) ==
  \/ it.created_at # None /\ it.created_at >= ls
  \/ it.created_at = None /\ it.uid \notin seen

\* line 302: the test of one item in delta mode
IsCandidate(it, ls, seen) ==
  \/ it.created_at # None /\ it.created_at > ls
  \/ it.created_at = None /\ it.uid \notin seen

\* Mutant of Candidates: without a watermark every item counts as new.
Candidates_SeedAll(items, ls, seen) ==
  IF ls # None THEN SelectSeq(items, LAMBDA it : IsCandidate(it, ls, seen))
  ELSE items

\* lines 301-305
Candidates(items, ls, seen) ==
  IF ls # None THEN SelectSeq(items, LAMBDA it : IsCandidate(it, ls, seen))
  ELSE <<>>

\* Mutant of SkipInDedup: the test against seen_ids is missing.
SkipInDedup_NoSeen(uid, seen, run_seen) ==
  uid = "" \/ uid \in run_seen

\* line 311: the items the de-dup loop skips
SkipInDedup(uid, seen, run_seen) ==
  uid = "" \/ uid \in seen \/ uid \in run_seen

\* lines 308-314: de-dup within the run and across runs
RECURSIVE Dedup(_, _, _)
Dedup(cands, seen, acc) ==
  IF cands = <<>> THEN acc
  ELSE LET it == Head(cands) IN
       IF SkipInDedup(it.uid, seen, Uids(acc))
       THEN Dedup(Tail(cands), seen, acc)
       ELSE Dedup(Tail(cands), seen, Append(acc, it))

NewItems(items, ls, seen) == Dedup(Candidates(items, ls, seen), seen, <<>>)

FirstN(s, n) == SubSeq(s, 1, Min(Max(n, 0), Len(s)))

\* lines 318-330: up to FALLBACK_PAGES pages of /maps/latest, sorted, first N;
\* any failing request leaves the fallback preview empty.
RECURSIVE FallbackDocs(_, _)
FallbackDocs(rem, page) ==
  IF page >= FALLBACK_PAGES THEN <<>>
  ELSE LET docs == PageOf(Listing(LATEST, rem), page) IN
       IF docs = <<>> THEN <<>> ELSE docs \o FallbackDocs(rem, page + 1)

FallbackPreview(items, rem, raises) ==
  IF items # <<>> \/ raises THEN <<>>
  ELSE FirstN(SortNewestFirst(<<>>, MapNormalize(FallbackDocs(rem, 0))), PREVIEW_LAST_N)

\* Mutant of Preview: the slice to PREVIEW_LAST_N is missing.
Preview_All(items, fallback) ==
  IF items # <<>> THEN items ELSE fallback

\* line 337: the preview batch
Preview(items, fallback) ==
  IF items # <<>> THEN FirstN(items, PREVIEW_LAST_N) ELSE fallback

NoSend == [called |-> FALSE, items |-> <<>>, is_preview |-> FALSE]

\* lines 333-339: the send_email call of the run, if any
SendCall(new, items, fallback, dry) ==
  IF new # <<>> /\ ~dry
  THEN [called |-> TRUE, items |-> new, is_preview |-> FALSE]
  ELSE IF ~dry /\ (Preview(items, fallback) # <<>> \/ ALWAYS_EMAIL)
       THEN [called |-> TRUE, items |-> Preview(items, fallback), is_preview |-> TRUE]
       ELSE NoSend

SeqMax(s, default) ==
  IF s = <<>> THEN default
  ELSE CHOOSE m \in Range(s) : \A x \in Range(s) : x <= m

\* Mutant of PoolNewest: the oldest created_at of the pool (min for max).
PoolNewest_Oldest(items, ls) ==
  LET stamped == SelectSeq(items, LAMBDA it : it.created_at # None)
      ts == [i \in 1..Len(stamped) |-> stamped[i].created_at]
  IN IF ts = <<>> THEN ls
     ELSE CHOOSE m \in Range(ts) : \A x \in Range(ts) : x >= m

\* line 342: newest created_at of the pool, last_seen when it has none
PoolNewest(items, ls) ==
  LET stamped == SelectSeq(items, LAMBDA it : it.created_at # None)
  IN SeqMax([i \in 1..Len(stamped) |-> stamped[i].created_at], ls)

\* Mutant of NewestTs: the clamp to now is missing.
NewestTs_NoClamp(items, ls, now_utc) == PoolNewest(items, ls)

\* lines 342-345: the new watermark, clamped to now
NewestTs(items, ls, now_utc) ==
  LET newest_ts == PoolNewest(items, ls)
  IN IF newest_ts # None /\ newest_ts > now_utc THEN now_utc ELSE newest_ts

\* lines 346-347
NewLastSeen(st, items, ls, now_utc) ==
  IF NewestTs(items, ls, now_utc) # None THEN NewestTs(items, ls, now_utc)
  ELSE st.last_seen

\* lines 350-352: the set after the new items are added
SeenAfter(seen, new) == seen \cup {u \in Uids(new) : u # ""}

\* Mutant of SeenLists: the slice is missing.
SeenLists_NoCap(seen) == {seen}

\* line 353: list(seen_ids)[-CAP:].  The order of list(set) is whatever the
\* interpreter's string hashing gives in that process, so the slice may keep
\* any SEEN_CAP members of the set (all of them when there are no more).
SeenLists(seen) ==
  {kept \in SUBSET seen : Cardinality(kept) = Min(SEEN_CAP, Cardinality(seen))}

\* ----------------------------------------------------------------- actions
NoFail == [i \in 1..Max(Len(BS_TAGS), 1) |-> BS_MAX_PAGES_PER_TAG]

NoPrev == [delta |-> FALSE, last_seen |-> None, raw_docs |-> <<>>, new_items |-> <<>>,
           outcome |-> "none", file |-> NoFile]

BlankLocals ==
  /\ loaded = DefaultState
  /\ state = DefaultState
  /\ last_seen = None
  /\ seen_ids = {}
  /\ raw_docs = <<>>
  /\ requests = <<>>
  /\ items_all = <<>>
  /\ new_items = <<>>
  /\ fallback_preview = <<>>
  /\ sent = NoSend

Init ==
  /\ BS_TAGS \in TagChoices
  /\ BS_MIN_SCORE \in MinScoreChoices
  /\ DRY_RUN \in BOOLEAN
  /\ file = NoFile
  /\ remote = {}
  /\ now = 1
  /\ fail = NoFail
  /\ pc = "idle"
  /\ outcome = "none"
  /\ BlankLocals
  /\ events = <<>>
  /\ repeat = FALSE
  /\ twin = FALSE
  /\ first_run = TRUE
  /\ prev = NoPrev

\* lines 284-286: load_state and the locals read from it.  json.load raising
\* ends the run.
LoadFrom(f) ==
  /\ events' = <<"load_state">>
  /\ raw_docs' = <<>>
  /\ requests' = <<>>
  /\ items_all' = <<>>
  /\ new_items' = <<>>
  /\ fallback_preview' = <<>>
  /\ sent' = NoSend
  /\ IF LoadRaises(f)
     THEN /\ pc' = "done"
          /\ outcome' = "load_error"
          /\ loaded' = DefaultState
          /\ state' = DefaultState
          /\ last_seen' = None
          /\ seen_ids' = {}
     ELSE /\ pc' = "loaded"
          /\ outcome' = "running"
          /\ loaded' = load_state(f)
          /\ state' = load_state(f)
          /\ last_seen' = load_state(f).last_seen
          /\ seen_ids' = load_state(f).seen_ids

\* line 284 with STATE_PATH (line 45) as it is on disk
LoadStep == LoadFrom(file)

\* A run starts: the service lists `rem`, the clock reads `t`, and the
\* page requests of the fetcher that will fail in this run are fixed.
Load ==
  /\ pc = "idle"
  /\ \E rem \in SUBSET CatalogIds, t \in 1..MaxNow :
       /\ remote' = rem
       /\ now' = t
  /\ fail' \in FailChoices(BS_TAGS, BS_MAX_PAGES_PER_TAG)
  /\ repeat' = FALSE
  /\ twin' = FALSE
  /\ prev' = NoPrev
  /\ LoadStep
  /\ UNCHANGED << config, file, first_run >>

\* The next run starts right after a run that saved, with the service and the
\* clock unchanged.
LoadAgain ==
  /\ pc = "done"
  /\ outcome = "saved"
  /\ ~repeat
  /\ ~twin
  /\ repeat' = TRUE
  /\ twin' = FALSE
  /\ first_run' = FALSE
  /\ prev' = [delta |-> last_seen # None, last_seen |-> last_seen,
               raw_docs |-> raw_docs, new_items |-> new_items,
               outcome |-> outcome, file |-> file]
  /\ LoadStep
  /\ UNCHANGED << config, file, remote, now, fail >>

\* line 43: the same run once more with DRY_RUN=1, on a state file that holds
\* what the run before loaded, with the service, the clock and the failing
\* requests unchanged.
LoadTwin ==
  /\ pc = "done"
  /\ outcome \in {"saved", "send_error"}
  /\ ~repeat
  /\ ~twin
  /\ ~DRY_RUN
  /\ DRY_RUN' = TRUE
  /\ twin' = TRUE
  /\ repeat' = FALSE
  /\ first_run' = FALSE
  /\ prev' = [delta |-> last_seen # None, last_seen |-> last_seen,
               raw_docs |-> raw_docs, new_items |-> new_items,
               outcome |-> outcome, file |-> file]
  /\ file' = JsonFile(loaded)
  /\ LoadFrom(JsonFile(loaded))
  /\ UNCHANGED << BS_TAGS, BS_MIN_SCORE, remote, now, fail >>

\* lines 290-330: fetch, normalize, filter, sort, resolve the new-set, and pull
\* the fallback preview when the pool is empty.
Resolve ==
  /\ pc = "loaded"
  /\ LET got == fetch_merged_latest_for_tags(BS_TAGS, BS_MAX_PAGES_PER_TAG, remote, fail)
           items == ItemsAll(got.merged, BS_MIN_SCORE)
       IN /\ raw_docs' = got.merged
          /\ requests' = got.requests
          /\ items_all' = items
          /\ new_items' = NewItems(items, last_seen, seen_ids)
          /\ \E raises \in (IF items = <<>> THEN BOOLEAN ELSE {FALSE}) :
               fallback_preview' = FallbackPreview(items, remote, raises)
  /\ events' = Append(events, "fetch")
  /\ pc' = "resolved"
  /\ UNCHANGED << config, file, remote, now, fail, outcome, loaded, state, last_seen,
                  seen_ids, sent, repeat, twin,
                  first_run, prev >>

\* lines 333-339, send_email returning (or not being called)
Dispatch ==
  /\ pc = "resolved"
  /\ sent' = SendCall(new_items, items_all, fallback_preview, DRY_RUN)
  /\ events' = IF sent'.called THEN Append(events, "send_email") ELSE events
  /\ pc' = "dispatched"
  /\ UNCHANGED << config, file, remote, now, fail, outcome, loaded, state, last_seen,
                  seen_ids, raw_docs, requests, items_all, new_items,
                  fallback_preview, repeat, twin,
                  first_run, prev >>

\* lines 333-339, send_email raising (SMTP connect, login or send fails):
\* nothing catches it, main() ends there.
DispatchRaises ==
  /\ pc = "resolved"
  /\ SendCall(new_items, items_all, fallback_preview, DRY_RUN).called
  /\ sent' = SendCall(new_items, items_all, fallback_preview, DRY_RUN)
  /\ events' = Append(events, "send_email")
  /\ pc' = "done"
  /\ outcome' = "send_error"
  /\ UNCHANGED << config, file, remote, now, fail, loaded, state, last_seen,
                  seen_ids, raw_docs, requests, items_all, new_items,
                  fallback_preview, repeat, twin,
                  first_run, prev >>

\* Mutant of RecordedItems: whatever was emailed is recorded.
RecordedItems_Sent == sent.items

\* line 350: the items whose identities the run records as delivered
RecordedItems == new_items

\* Mutant of SaveStep: the state is persisted right after the new-set is
\* resolved, ahead of the dispatch.
SaveStep_BeforeSend ==
  /\ pc = "resolved"
  /\ seen_ids' = SeenAfter(seen_ids, RecordedItems)
  /\ \E lst \in SeenLists(SeenAfter(seen_ids, RecordedItems)) :
       state' = [last_seen |-> NewLastSeen(state, items_all, last_seen, now),
                 seen_ids |-> lst]
  /\ events' = Append(events, "save_state")
  /\ pc' = "done"
  /\ UNCHANGED << config, remote, now, fail, loaded, last_seen, raw_docs, requests,
                  items_all, new_items, fallback_preview, sent, repeat, twin,
                  first_run, prev >>

\* lines 341-353: the dict main() hands to save_state
SaveStep ==
  /\ pc = "dispatched"
  /\ seen_ids' = SeenAfter(seen_ids, RecordedItems)
  /\ \E lst \in SeenLists(SeenAfter(seen_ids, RecordedItems)) :
       state' = [last_seen |-> NewLastSeen(state, items_all, last_seen, now),
                 seen_ids |-> lst]
  /\ events' = Append(events, "save_state")
  /\ pc' = "done"
  /\ UNCHANGED << config, remote, now, fail, loaded, last_seen, raw_docs, requests,
                  items_all, new_items, fallback_preview, sent, repeat, twin,
                  first_run, prev >>

\* line 354, save_state writing the whole document
Save ==
  /\ SaveStep
  /\ file' = JsonFile(state')
  /\ outcome' = "saved"

\* line 354, save_state stopped after open("w") emptied the file and before
\* json.dump finished (the process is killed, the disk is full)
SaveTorn ==
  /\ SaveStep
  /\ file' = CorruptFile
  /\ outcome' = "save_torn"

\* The process is gone; the next run is a new process.
Finish ==
  /\ pc = "done"
  /\ pc' = "idle"
  /\ outcome' = "none"
  /\ remote' = {}
  /\ now' = 1
  /\ fail' = NoFail
  /\ loaded' = DefaultState
  /\ state' = DefaultState
  /\ last_seen' = None
  /\ seen_ids' = {}
  /\ raw_docs' = <<>>
  /\ requests' = <<>>
  /\ items_all' = <<>>
  /\ new_items' = <<>>
  /\ fallback_preview' = <<>>
  /\ sent' = NoSend
  /\ events' = <<>>
  /\ repeat' = FALSE
  /\ twin' = FALSE
  /\ first_run' = FALSE
  /\ prev' = NoPrev
  /\ UNCHANGED << config, file >>

Next ==
  \/ Load
  \/ LoadAgain
  \/ LoadTwin
  \/ Resolve
  \/ Dispatch
  \/ DispatchRaises
  \/ Save
  \/ SaveTorn
  \/ Finish

Spec == Init /\ [][Next]_vars

\* ------------------------------------------------------------------ claims
Resolved == pc \in {"resolved", "dispatched", "done"} /\ outcome # "load_error"
Saved    == pc = "done" /\ outcome = "saved"
DeltaRun == last_seen # None
SeedRun  == last_seen = None

\* C1: the watermark a run persists is never below the watermark it loaded
\* (stated here for the runs whose clock is not behind the loaded watermark).
C1_MonotonicWatermark ==
  (Saved /\ DeltaRun /\ now >= last_seen) => file.last_seen >= last_seen

\* C2: in a DELTA run no item whose uid is in the loaded seen_ids is in
\* new_items, even when its created_at is above the watermark.
C2_NoRedelivery ==
  (Resolved /\ DeltaRun) => Uids(new_items) \cap loaded.seen_ids = {}

C2_Witness ==
  /\ pc = "resolved" /\ DeltaRun
  /\ \E i \in 1..Len(items_all) :
       /\ items_all[i].uid \in loaded.seen_ids
       /\ items_all[i].created_at # None
       /\ items_all[i].created_at > last_seen
  /\ new_items # <<>>

\* C3: a DELTA run that follows a DELTA run at once, with the same pool
\* fetched from an unchanged service at the same clock reading and loading
\* the state the first one saved, has an empty new-set (stated here for a
\* clock that is not behind the watermark the first run loaded, and a first
\* run that delivered fewer new items than seen_ids can hold).
C3_IdempotentDelta ==
  (Resolved /\ repeat /\ prev.delta /\ DeltaRun /\ raw_docs = prev.raw_docs
     /\ now >= prev.last_seen /\ Len(prev.new_items) < SEEN_CAP)
    => new_items = <<>>

\* C4 as stated: a SEED run (not dry, pool not empty) sends a preview of the
\* N most recent items and persists exactly their identities as seen_ids.
C4_SeedRecordsPreview ==
  (Saved /\ SeedRun /\ ~DRY_RUN /\ items_all # <<>>)
    => /\ sent.called /\ sent.is_preview
       /\ sent.items = FirstN(items_all, PREVIEW_LAST_N)
       /\ file.seen_ids = Uids(sent.items)

\* The batch holds the n most recent items of the pool, newest first.
MostRecent(batch, pool, n) ==
  /\ Len(batch) = Min(n, Len(pool))
  /\ Uids(batch) \subseteq Uids(pool)
  /\ Cardinality(Uids(batch)) = Len(batch)
  /\ \A i \in 1..Len(batch) : \A j \in 1..Len(pool) :
       pool[j].uid \notin Uids(batch) => SortKey(batch[i]) >= SortKey(pool[j])
  /\ \A i \in 1..Len(batch) : \A j \in 1..Len(batch) :
       i < j => SortKey(batch[i]) >= SortKey(batch[j])

\* C4 (amended): a SEED run (not dry, pool not empty) sends a preview of the
\* min(N, pool size) most recent items of the filtered pool, and the seen_ids
\* it persists are the loaded ones: no previewed identity is recorded.
C4_SeedPreviewNotRecorded ==
  (Saved /\ SeedRun /\ ~DRY_RUN /\ items_all # <<>>)
    => /\ sent.called /\ sent.is_preview
       /\ MostRecent(sent.items, items_all, PREVIEW_LAST_N)
       /\ file.seen_ids = loaded.seen_ids
       /\ Uids(sent.items) \cap file.seen_ids = {}

C4_Witness ==
  /\ Saved /\ SeedRun /\ ~DRY_RUN
  /\ Len(items_all) > PREVIEW_LAST_N
  /\ sent.called /\ sent.is_preview /\ Len(sent.items) = PREVIEW_LAST_N

\* C5: a DELTA run with an empty new-set that sends a preview persists the
\* seen_ids it loaded: no previewed identity is added.
C5_PreviewNonConsumption ==
  (Saved /\ DeltaRun /\ new_items = <<>> /\ sent.called /\ sent.is_preview)
    => file.seen_ids = loaded.seen_ids

C5_Witness ==
  /\ Saved /\ DeltaRun /\ new_items = <<>>
  /\ sent.called /\ sent.is_preview /\ sent.items # <<>>
  /\ loaded.seen_ids # {}
  /\ Uids(sent.items) \cap loaded.seen_ids = {}

\* C6: in a DELTA run an item of the filtered pool whose uid is not in the
\* loaded seen_ids is in new_items iff its created_at is above the watermark
\* or it has no created_at; created_at equal to the watermark is excluded.
C6_NewIff ==
  (Resolved /\ DeltaRun) =>
    \A i \in 1..Len(items_all) :
      LET it == items_all[i] IN
      it.uid \notin loaded.seen_ids =>
        /\ it.uid \in Uids(new_items)
             <=> \/ it.created_at # None /\ it.created_at > last_seen
                 \/ it.created_at = None
        /\ it.created_at = last_seen => it.uid \notin Uids(new_items)

C6_Witness ==
  /\ pc = "resolved" /\ DeltaRun
  /\ \E i, j, k \in 1..Len(items_all) :
       /\ items_all[i].created_at = last_seen
       /\ items_all[i].uid \notin loaded.seen_ids
       /\ items_all[i].uid \notin Uids(new_items)
       /\ items_all[j].created_at > last_seen
       /\ items_all[j].uid \in Uids(new_items)
       /\ items_all[k].created_at = None
       /\ items_all[k].uid \in Uids(new_items)

\* C7: every run that ends has called save_state, whatever happened before.
C7_AlwaysPersists ==
  pc = "done" => \E k \in 1..Len(events) : events[k] = "save_state"

\* C8: with the state file missing or corrupt at the start of a run,
\* load_state gives the default state and the run does not end in an error.
C8_CorruptStateIsNoState ==
  (pc # "idle" /\ outcome # "save_torn" /\ file.kind \in {"missing", "corrupt"})
    => loaded = DefaultState /\ outcome # "load_error"

\* C9 as stated: a failed page request is the last request of the call.
C9_FailureEndsCall ==
  Resolved => \A k \in 1..Len(requests) : ~requests[k].ok => k = Len(requests)

\* The documents of the successful requests of a log, merged in order.
RECURSIVE MergedOfLog(_, _, _)
MergedOfLog(log, rem, merged) ==
  IF log = <<>> THEN merged
  ELSE LET r == Head(log) IN
       MergedOfLog(Tail(log), rem,
                   IF r.ok THEN MergeDocs(merged, PageOf(Listing(r.src, rem), r.page))
                   ELSE merged)

\* C9 (amended): a failed page request ends the fetching of that listing: no
\* later request of the call goes to the same listing, a request that follows
\* it is page 0 of the next tag, without tags it is the last request; the call
\* returns the documents of the pages fetched (before the failure and from the
\* later tags), and the run goes on to resolve.
C9_FailureEndsListing ==
  Resolved =>
    /\ \A k \in 1..Len(requests) : ~requests[k].ok =>
         /\ \A j \in 1..Len(requests) : j > k => requests[j].src # requests[k].src
         /\ k < Len(requests) => requests[k + 1].page = 0
         /\ BS_TAGS = <<>> => k = Len(requests)
    /\ raw_docs = MergedOfLog(requests, remote, <<>>)

C9_Witness ==
  /\ pc = "resolved"
  /\ \E k \in 1..Len(requests) :
       /\ ~requests[k].ok /\ requests[k].page > 0 /\ k < Len(requests)
       /\ requests[Len(requests)].ok
  /\ Len(raw_docs) >= 2

\* C10: the seen_ids of a saved state file has at most SEEN_CAP members.
C10_BoundedSeen ==
  file.kind = "json" => Cardinality(file.seen_ids) <= SEEN_CAP

C10_Witness ==
  /\ Saved
  /\ Cardinality(seen_ids) > SEEN_CAP
  /\ Cardinality(file.seen_ids) = SEEN_CAP

\* C11: when save_state has been entered, the state file holds the complete
\* new state or the complete previous one, also when the process stopped
\* inside save_state.
C11_AtomicSave ==
  (pc = "done" /\ outcome \in {"saved", "save_torn"})
    => \/ file = JsonFile(state)
       \/ file.kind # "corrupt" /\ load_state(file) = loaded

\* C12: a watermark a run persists is never above the clock reading of that
\* run: a created_at that lies in the future is clamped to now.
C12_WatermarkNotAfterNow ==
  (Saved /\ file.last_seen # None) => file.last_seen <= now

C12_Witness ==
  /\ Saved
  /\ \E i \in 1..Len(items_all) : items_all[i].created_at > now
  /\ file.last_seen = now
  /\ file.last_seen # loaded.last_seen

\* The created_at values of a sequence of items, and the newest of a set.
Stamps(items) == {items[i].created_at : i \in 1..Len(items)} \ {None}
Newest(S) == CHOOSE m \in S : \A x \in S : x <= m

\* C14 as stated: the saved watermark is the newest created_at of every
\* fetched item, filtered out or not, clamped to now, and the loaded one when
\* no fetched item has a timestamp (stated for a clock not behind the loaded
\* watermark).
C14_WatermarkOfFetched ==
  (Saved /\ now >= last_seen) =>
    LET fetched == Stamps(MapNormalize(raw_docs)) IN
    file.last_seen = IF fetched # {} THEN Min(Newest(fetched), now)
                     ELSE loaded.last_seen

\* C14 (amended): the saved watermark is the newest created_at of the
\* filtered pool (the fetched items that pass the score filter, delivered or
\* not), clamped to now; when no item of the filtered pool has a timestamp it
\* is the loaded watermark, clamped to now as well (absent when none was
\* loaded).
C14_WatermarkOfPool ==
  Saved =>
    LET pool == Stamps(items_all) IN
    file.last_seen = IF pool # {} THEN Min(Newest(pool), now)
                     ELSE IF loaded.last_seen = None THEN None
                     ELSE Min(loaded.last_seen, now)

C14_Witness ==
  /\ Saved
  /\ Stamps(items_all) # {}
  /\ Cardinality(Stamps(items_all)) >= 2
  /\ Newest(Stamps(MapNormalize(raw_docs))) > Newest(Stamps(items_all))
  /\ Newest(Stamps(MapNormalize(raw_docs))) <= now
  /\ Uids(new_items) # Uids(items_all)
  /\ file.last_seen = Newest(Stamps(items_all))

\* Position of the first event `e` of the run, 0 when there is none.
EventAt(e) ==
  IF \E k \in 1..Len(events) : events[k] = e
  THEN CHOOSE k \in 1..Len(events) :
         events[k] = e /\ \A j \in 1..(k - 1) : events[j] # e
  ELSE 0
EventCount(e) == Cardinality({k \in 1..Len(events) : events[k] = e})

C16_NewestRetained ==
  (Saved /\ Len(new_items) <= SEEN_CAP) => Uids(new_items) \subseteq file.seen_ids

\* C17 as stated: one call of the fetcher makes at most max_pages requests.
C17_TotalRequestsCapped ==
  Resolved => Len(requests) <= BS_MAX_PAGES_PER_TAG

\* The listings one call walks, in order.
Sources == IF BS_TAGS # <<>> THEN BS_TAGS ELSE <<LATEST>>
RequestsOf(src) == SelectSeq(requests, LAMBDA r : r.src = src)
SourceIndex(src) == CHOOSE i \in 1..Len(Sources) : Sources[i] = src

\* C17 (amended): one call walks the listings of the configured tags one
\* after the other (the unfiltered listing when there is no tag); for each
\* listing it requests the pages 0, 1, 2, ... in order, stops that listing at
\* its first empty page, and makes at most max_pages requests for it, so at
\* most max_pages times the number of tags in the whole call.
C17_RequestsCappedPerTag ==
  Resolved =>
    /\ \A k \in 1..Len(requests) : requests[k].src \in Range(Sources)
    /\ \A k \in 1..(Len(requests) - 1) :
         SourceIndex(requests[k].src) <= SourceIndex(requests[k + 1].src)
    /\ \A i \in 1..Len(Sources) :
         LET rs == RequestsOf(Sources[i]) IN
         /\ Len(rs) <= BS_MAX_PAGES_PER_TAG
         /\ \A k \in 1..Len(rs) : rs[k].page = k - 1
         /\ \A k \in 1..Len(rs) :
              (rs[k].ok /\ PageOf(Listing(Sources[i], remote), rs[k].page) = <<>>)
                => k = Len(rs)
    /\ Len(requests) <= BS_MAX_PAGES_PER_TAG * Len(Sources)

C17_Witness ==
  /\ pc = "resolved"
  /\ Len(BS_TAGS) = 2
  /\ Len(requests) > BS_MAX_PAGES_PER_TAG
  /\ Len(RequestsOf(BS_TAGS[1])) = BS_MAX_PAGES_PER_TAG
  /\ \E k \in 1..Len(requests) :
       /\ requests[k].ok
       /\ PageOf(Listing(requests[k].src, remote), requests[k].page) = <<>>

\* C18: in a DELTA run with an empty new-set and a filtered pool that is not
\* empty, the batch handed to send_email is flagged as preview and is the
\* first min(N, pool size) items of the pool, newest first with the items
\* without a timestamp last; it never has more than N items.
C18_DeltaPreviewBatch ==
  (pc \in {"dispatched", "done"} /\ DeltaRun /\ new_items = <<>>
     /\ items_all # <<>> /\ sent.called)
    => /\ sent.is_preview
       /\ Len(sent.items) <= PREVIEW_LAST_N
       /\ Len(sent.items) = Min(PREVIEW_LAST_N, Len(items_all))
       /\ \A i \in 1..Len(sent.items) : sent.items[i] = items_all[i]
       /\ MostRecent(sent.items, items_all, PREVIEW_LAST_N)
       /\ \A i \in 1..Len(sent.items) : \A j \in 1..Len(sent.items) :
            (sent.items[i].created_at = None /\ sent.items[j].created_at # None)
              => j < i

C18_Witness ==
  /\ pc = "dispatched" /\ DeltaRun /\ new_items = <<>> /\ sent.called
  /\ Len(items_all) > PREVIEW_LAST_N
  /\ Len(sent.items) = PREVIEW_LAST_N
  /\ raw_docs[1].createdAt < raw_docs[Len(raw_docs)].createdAt

\* C13: a run and its DRY_RUN twin (same loaded state, same service, same
\* clock, same failing requests) resolve the same new-set and leave the same
\* state on disk (stated for the twins whose save_state finished and whose
\* seen_ids fit under the cap, so that the slice of line 353 drops nothing).
C13_DryRunEquivalence ==
  (twin /\ pc = "done" /\ outcome = "saved" /\ Cardinality(seen_ids) <= SEEN_CAP)
    => /\ new_items = prev.new_items
       /\ load_state(file) = load_state(prev.file)

\* the documents the configured listings hold in this run
Listed ==
  {Catalog[k] : k \in {i \in 1..Len(Catalog) :
       \E j \in 1..Len(Sources) : Catalog[i] \in Range(Listing(Sources[j], remote))}}

\* C19: after a run that saved, every listed item that passes the score
\* filter and whose createdAt is at or below the saved watermark was fetched
\* (stated for the first run, before which nothing was ever fetched).
C19_NoSkippedItem ==
  (Saved /\ first_run /\ file.last_seen # None) =>
    \A d \in Listed :
      ( /\ ScoreFilter(<<normalize_doc(d)>>, BS_MIN_SCORE) # <<>>
        /\ normalize_doc(d).created_at # None
        /\ normalize_doc(d).created_at <= file.last_seen )
        => doc_uid(d) \in Uids(MapNormalize(raw_docs))

\* C20: a SEED run whose filtered pool has a timestamped item leaves a state
\* file with a watermark, so that the next run is a DELTA run (stated for the
\* runs whose save_state, if reached, was not interrupted).
C20_SeedThenDelta ==
  (pc = "done" /\ SeedRun /\ Stamps(items_all) # {} /\ outcome # "save_torn")
    => ~LoadRaises(file) /\ load_state(file).last_seen # None

====
